---------------------------- MODULE Spec2Model ----------------------------
(***************************************************************************)
(* Model of one repository tab of super-git-graph (GitGraphView): the      *)
(* paginated commit window, the position reconciliation of fetchCommits,   *)
(* the subtree drag handler, the modifier-key tracking and the debounced   *)
(* layout save, together with the layout cache they read and write.        *)
(*                                                                         *)
(* Commit ids are strings.  Positions are records [x, y] of integers.      *)
(* A node set is a function from the ids of the rendered nodes to their    *)
(* positions; an edge set is a set of records [source, target, dashed].    *)
(***************************************************************************)
EXTENDS Integers, Sequences, FiniteSets, TLC

(***************************************************************************)
(* Bounds of the model.                                                    *)
(***************************************************************************)
\* number of real commits in the repository history
NumCommits == 3
\* page size of get_commits; the program asks for 50 (part_003:154), the
\* model scales it down so that the history spans several pages
limit == 2
\* number of fetchCommits calls in a session of fetches that do not overlap
MaxCalls == 2
\* number of fetchCommits calls in a session of fetches that overlap
MaxOverlapCalls == 4
\* number of drag-move ticks in a session of fetches and single-node drags
MaxMoves == 1
\* number of drag-move ticks in a session of drag gestures
MaxTicks == 2

(***************************************************************************)
(* Program constants.                                                      *)
(***************************************************************************)
\* dagre graph configuration and node box of getLayoutedElements
ranksep == 50
nodesep == 20
nodeWidth == 100
nodeHeight == 60

WorkingCopy == "working-copy"
DiffArrowNodeId == "__diff_arrow_target__"
NoId == "null"
NoPos == [x |-> -1, y |-> -1]

AllIds == <<"c1", "c2", "c3", "c4", "c5", "c6", "c7", "c8">>
CommitId(i) == AllIds[i]
RealIds == {CommitId(i) : i \in 1..NumCommits}
CommitIds == RealIds \cup {WorkingCopy}
IndexOf(id) == CHOOSE i \in 1..NumCommits : CommitId(i) = id

Min(a, b) == IF a < b THEN a ELSE b
Max(a, b) == IF a > b THEN a ELSE b
Range(s) == {s[i] : i \in DOMAIN s}
Pos(px, py) == [x |-> px, y |-> py]
PosAdd(p, q) == [x |-> p.x + q.x, y |-> p.y + q.y]
PosSub(p, q) == [x |-> p.x - q.x, y |-> p.y - q.y]
ZeroPos == Pos(0, 0)
EmptyMap == [i \in {} |-> ZeroPos]
\* { ...a, ...b } of two id -> position objects
Merge(a, b) == [i \in (DOMAIN a) \cup (DOMAIN b) |-> IF i \in DOMAIN b THEN b[i] ELSE a[i]]

(***************************************************************************)
(* Repository paths are sequences of characters.  LayoutService keys a     *)
(* repository by its path without trailing separators, encoded.            *)
(***************************************************************************)
Separators == {"/", "\\"}
\* the path of the tab of the model and the path of a second tab
repoPath == <<"/", "r">>
otherRepoPath == <<"/", "q">>
NoPath == <<"null">>

\* variant: only one trailing separator is removed
normalizedOnce(path) ==
    IF Len(path) > 0 /\ path[Len(path)] \in Separators
    THEN SubSeq(path, 1, Len(path) - 1)
    ELSE path

\* repoPath.replace(/[\\/]+$/, ''): the trailing separators are removed
RECURSIVE normalized(_)
normalized(path) ==
    IF Len(path) > 0 /\ path[Len(path)] \in Separators
    THEN normalized(SubSeq(path, 1, Len(path) - 1))
    ELSE path

\* btoa(encodeURIComponent(s)): an injective encoding of the string
btoa(str) == <<"base64">> \o str

getStoreKey(path) == btoa(normalized(path))

(***************************************************************************)
(* The repository as the backend sees it.  The history is c1 (oldest) to   *)
(* cN (newest); c3, c5, ... are merge commits whose first parent is the    *)
(* older of their two parents.  The working copy, when the repository has  *)
(* uncommitted changes, is a synthetic commit on top of the newest commit. *)
(***************************************************************************)
commitParents(id) ==
    IF id = WorkingCopy THEN <<CommitId(NumCommits)>>
    ELSE LET i == IndexOf(id) IN
         IF i = 1 THEN <<>>
         ELSE IF i % 2 = 0 THEN <<CommitId(i - 1)>>
         ELSE <<CommitId(i - 2), CommitId(i - 1)>>

\* the history walk, newest first
History == [k \in 1..NumCommits |-> CommitId(NumCommits + 1 - k)]

\* get_commits(repoPath, limit, skip): one page of the history walk; the
\* synthetic working-copy commit is put in front of the first page only
get_commits(skip, isDirty) ==
    LET page == SubSeq(History, skip + 1, Min(skip + limit, NumCommits))
    IN  [commits  |-> IF skip = 0 /\ isDirty THEN <<WorkingCopy>> \o page ELSE page,
         has_more |-> skip + limit < NumCommits]

(***************************************************************************)
(* getLayoutedElements: the dagre layout (rankdir TB) of the loaded        *)
(* commits and the edges between loaded commits.  dagre is abstracted as a *)
(* layered layout: the rank of a commit is the longest path to it from a   *)
(* commit without loaded parents, commits of one rank are placed left to   *)
(* right in history order.                                                 *)
(***************************************************************************)
\* the commits in history order, the working copy last
Order(id) == IF id = WorkingCopy THEN NumCommits + 1 ELSE IndexOf(id)
CommitAt(k) == IF k = NumCommits + 1 THEN WorkingCopy ELSE CommitId(k)

loadedParents(id, ids) == {p \in Range(commitParents(id)) : p \in ids}

MaxOf(S) == CHOOSE r \in S : \A o \in S : o <= r

\* rank of every commit of ids, computed parents first
RECURSIVE dagreRanks(_, _, _)
dagreRanks(k, ranks, ids) ==
    IF k > NumCommits + 1 THEN ranks
    ELSE LET id == CommitAt(k)
             ps == loadedParents(id, ids)
             r  == IF ps = {} THEN 0 ELSE 1 + MaxOf({ranks[p] : p \in ps})
         IN  IF id \in ids
             THEN dagreRanks(k + 1, [i \in (DOMAIN ranks) \cup {id} |->
                                        IF i = id THEN r ELSE ranks[i]], ids)
             ELSE dagreRanks(k + 1, ranks, ids)

\* dagre.layout: the centre of every node
dagreLayout(ids) ==
    LET ranks == dagreRanks(1, [i \in {} |-> 0], ids)
    IN  [id \in ids |->
            LET k == Cardinality({o \in ids : ranks[o] = ranks[id] /\ Order(o) < Order(id)})
            IN  Pos(nodeWidth \div 2 + k * (nodeWidth + nodesep),
                    nodeHeight \div 2 + ranks[id] * (nodeHeight + ranksep))]

\* nodes of the result: position of the top-left corner of each node
layoutNodes(ids) ==
    LET g == dagreLayout(ids)
    IN  [id \in ids |-> Pos(g[id].x - 50, g[id].y - 30)]

\* variant: every edge into a merge commit is dashed
isDashedForMerge(id, index) == Len(commitParents(id)) > 1

\* edges of the result: one per loaded parent; dashed for the second and
\* later parents of a merge commit
isDashed(id, index) == Len(commitParents(id)) > 1 /\ index > 1

\* variant: a parent counts as loaded whether it is in the list or not
someAny(commits, id) == TRUE

\* commits.some((c) => c.id === id)
some(commits, id) == \E i \in DOMAIN commits : commits[i] = id

\* the edges that commit.parents.forEach pushes for one commit
parentEdges(id, commits) ==
    LET parents == commitParents(id)
        all == [index \in DOMAIN parents |->
                   [source |-> parents[index], target |-> id,
                    dashed |-> isDashed(id, index)]]
    IN  SelectSeq(all, LAMBDA e : some(commits, e.source))

\* the edges array after commits.forEach has handled the first k commits
RECURSIVE pushEdges(_, _)
pushEdges(commits, k) ==
    IF k = 0 THEN <<>> ELSE pushEdges(commits, k - 1) \o parentEdges(commits[k], commits)

layoutEdges(commits) == Range(pushEdges(commits, Len(commits)))

getLayoutedElements(commits) ==
    [nodes |-> layoutNodes(Range(commits)), edges |-> layoutEdges(commits)]


(***************************************************************************)
(* State of the tab.                                                       *)
(***************************************************************************)
VARIABLES
    loadedCommits,      \* loadedCommits.current: the loaded window, newest first
    hasMore,            \* hasMore state
    loading,            \* loading state
    nodes,              \* nodes state of the rendering surface: id -> position
    edges,              \* edges state of the rendering surface
    fetches,            \* the fetchCommits calls in flight
    dirty,              \* the repository has uncommitted changes
    layoutStore,        \* the layout cache entry of this repository
    dragging,           \* id of the node of the active drag gesture, or NoId
    dragMoved,          \* the active gesture has moved its node
    lastNodePos,        \* lastNodePos.current
    isDragSubtreeMode,  \* store setting
    isCtrlPressed,      \* isCtrlPressed.current
    keysDown,           \* the modifier keys that are physically held
    ticks,              \* number of drag-move ticks so far
    calls,              \* number of fetchCommits calls so far
    debounceTimer,      \* pending call of the debounced saveLayout
    saveLog,            \* record of the drag-ends and saveLayout calls so far
    diffMode,           \* diffMode of the zustand store, shared by all tabs
    showDiffDialog,     \* showDiffDialog state of this tab
    openRepos,          \* the repository paths of the mounted tabs, in mount order
    activeRepo,         \* the path of the visible tab
    storeRepoPath,      \* repoPath of the zustand store
    onRefreshRequest,   \* path of the tab whose refresh callback the store holds
    store,              \* the entries of the layout cache file, by key
    layouted,           \* arguments and result of a getLayoutedElements call
    serviceCalls,       \* the saveLayout and clearLayout calls that are at an await
    ev                  \* what the last step did (observation for the properties)

vars == <<loadedCommits, hasMore, loading, nodes, edges, fetches, dirty,
          layoutStore, dragging, dragMoved, lastNodePos, isDragSubtreeMode, isCtrlPressed,
          keysDown, ticks, calls, debounceTimer, saveLog, diffMode, showDiffDialog,
          openRepos, activeRepo, storeRepoPath, onRefreshRequest, store, layouted,
          serviceCalls, ev>>

fetchVars == <<loadedCommits, hasMore, loading, fetches, calls>>
dragVars == <<dragging, dragMoved, lastNodePos, ticks>>
keyVars == <<isCtrlPressed, keysDown>>
saveVars == <<debounceTimer, saveLog>>
diffVars == <<diffMode, showDiffDialog>>
tabVars == <<openRepos, activeRepo, storeRepoPath, onRefreshRequest>>
serviceVars == <<store, layouted, serviceCalls>>

Calls == 1..Max(MaxCalls, MaxOverlapCalls)

\* timer: the place of the edge timer of the call among the pending timers
IdleFetch == [stage |-> "idle", isLoadMore |-> FALSE, skip |-> 0,
              anchor |-> NoId, commits |-> <<>>, timer |-> 0]
NoLayout == [has |-> FALSE, data |-> EmptyMap]
NoTimer == [pending |-> FALSE, args |-> EmptyMap]
\* saves: saveLayout calls; bursts: drag-ends that followed a save or nothing;
\* burst: drag-ends since the last saveLayout call; lastStop: the node
\* positions at the last drag-end
NoSaves == [saves |-> 0, bursts |-> 0, burst |-> 0, lastStop |-> EmptyMap]
\* a call of the LayoutService that is not in progress
NoServiceCall == [stage |-> "idle", path |-> NoPath, layout |-> EmptyMap, existing |-> EmptyMap]
NoServiceCalls == [save |-> NoServiceCall, clear |-> NoServiceCall]
\* diffMode of the store before startDiffMode; no getLayoutedElements call yet
NoDiff == [active |-> FALSE, sourceCommitId |-> NoId, targetCommitId |-> NoId]
NoCall == [commits |-> <<>>, nodes |-> EmptyMap, edges |-> {},
           other |-> <<>>, otherNodes |-> EmptyMap, otherEdges |-> {}]
NoEv == [op |-> "none", prevNodes |-> EmptyMap, prevEdges |-> {}, window |-> <<>>,
         cache |-> NoLayout, id |-> NoId, ids |-> {}, delta |-> ZeroPos,
         flag |-> FALSE, n |-> 0, diff |-> NoDiff]

\* a layout cache persisted by an earlier session: the positions of the k
\* oldest commits, away from every default position
storedPosition(id) == Pos(1000 + 7 * IndexOf(id), 2000 + 300 * IndexOf(id))
storedLayout(k) ==
    [has |-> TRUE, data |-> [id \in {CommitId(i) : i \in 1..k} |-> storedPosition(id)]]

\* variant: the new positions replace the stored entry
saveLayoutReplaces(stored, layout) == [has |-> TRUE, data |-> layout]

\* layoutService.saveLayout: the stored entry merged with the new positions
saveLayout(stored, layout) == [has |-> TRUE, data |-> Merge(stored.data, layout)]

(***************************************************************************)
(* LayoutService on the store file: entries by key and the index of the    *)
(* repository paths ('__REPO_INDEX__').  A missing entry and a null entry  *)
(* both read as no layout.                                                 *)
(***************************************************************************)
EmptyStore == [entries |-> EmptyMap, index |-> <<>>]

\* store.get(key), read as (... || {}) or (... ?? null)
storeGet(st, key) == IF key \in DOMAIN st.entries THEN st.entries[key] ELSE NoLayout

storeSet(st, key, entry) ==
    [st EXCEPT !.entries = [k \in (DOMAIN st.entries) \cup {key} |->
                               IF k = key THEN entry ELSE st.entries[k]]]

updateIndex(st, path, action) ==
    [st EXCEPT !.index = IF action = "add"
                         THEN IF path \in Range(@) THEN @ ELSE Append(@, path)
                         ELSE SelectSeq(@, LAMBDA q : q # path)]

getLayout(st, path) == storeGet(st, getStoreKey(path))

serviceSaveLayout(st, path, layout) ==
    LET key == getStoreKey(path)
    IN  updateIndex(storeSet(st, key, saveLayout(storeGet(st, key), layout)), path, "add")

\* variant: the repository leaves the index and its entry stays
clearLayoutOfIndex(st, path) == updateIndex(st, path, "remove")

clearLayout(st, path) ==
    updateIndex(storeSet(st, getStoreKey(path), NoLayout), path, "remove")

\* the store file that holds the entry of this repository
storeOf(entry) ==
    IF entry.has
    THEN updateIndex(storeSet(EmptyStore, getStoreKey(repoPath), entry), repoPath, "add")
    ELSE EmptyStore

Init ==
    /\ loadedCommits = <<>>
    /\ hasMore = FALSE
    /\ loading = FALSE
    /\ nodes = EmptyMap
    /\ edges = {}
    /\ fetches = [f \in Calls |-> IdleFetch]
    /\ dirty \in BOOLEAN
    /\ layoutStore \in {NoLayout} \cup {storedLayout(k) : k \in 0..NumCommits}
    /\ dragging = NoId
    /\ dragMoved = FALSE
    /\ lastNodePos = NoPos
    /\ isDragSubtreeMode = FALSE
    /\ isCtrlPressed = FALSE
    /\ keysDown = {}
    /\ ticks = 0
    /\ calls = 0
    /\ debounceTimer = NoTimer
    /\ saveLog = NoSaves
    /\ diffMode = NoDiff
    /\ showDiffDialog = FALSE
    /\ openRepos = <<repoPath>>
    /\ activeRepo = repoPath
    /\ storeRepoPath = repoPath
    /\ onRefreshRequest = repoPath
    /\ store = storeOf(layoutStore)
    /\ layouted = NoCall
    /\ serviceCalls = NoServiceCalls
    /\ ev = NoEv

(***************************************************************************)
(* fetchCommits(path, isLoadMore): from the call to the backend request.   *)
(***************************************************************************)
\* variant: the synthetic working-copy commit is counted in the offset
requestSkipCountsAll(isLoadMore) == IF isLoadMore THEN Len(loadedCommits) ELSE 0

\* skip offset of the request
requestSkip(isLoadMore) ==
    LET skip == IF isLoadMore THEN Len(loadedCommits) ELSE 0
    IN  IF isLoadMore /\ \E i \in DOMAIN loadedCommits : loadedCommits[i] = WorkingCopy
        THEN skip - 1
        ELSE skip

\* id of the oldest loaded commit, captured before the window is updated
previousOldestCommitId(isLoadMore) ==
    IF isLoadMore /\ Len(loadedCommits) > 0
    THEN loadedCommits[Len(loadedCommits)]
    ELSE NoId

\* a call of fetchCommits of this tab, made by an action of the tab origin
fetchCommitsCall(isLoadMore, origin) ==
    /\ calls + 1 \in Calls
    /\ calls' = calls + 1
    /\ loading' = TRUE
    /\ fetches' = [fetches EXCEPT ![calls + 1] =
                      [stage |-> "invoke", isLoadMore |-> isLoadMore,
                       skip |-> requestSkip(isLoadMore),
                       anchor |-> previousOldestCommitId(isLoadMore),
                       commits |-> <<>>, timer |-> 0]]
    /\ ev' = [NoEv EXCEPT !.op = "request", !.flag = isLoadMore,
                          !.n = requestSkip(isLoadMore), !.window = origin]
    /\ UNCHANGED <<diffVars, tabVars, serviceVars>>
    /\ UNCHANGED <<loadedCommits, hasMore, nodes, edges, dirty, layoutStore,
                   dragVars, isDragSubtreeMode, keyVars, saveVars>>

fetchCommits(isLoadMore) == fetchCommitsCall(isLoadMore, repoPath)

\* the effect that loads the tab: runs on mount and again whenever the tab
\* is activated or deactivated (fetchAllRefs changes with isActive)
InitialLoadEffect == fetchCommits(FALSE)

\* the Refresh button, disabled while loading
handleRefresh == ~loading /\ fetchCommits(FALSE)

\* the Load Older Commits button, rendered when hasMore, disabled while loading
handleLoadMore == hasMore /\ ~loading /\ fetchCommits(TRUE)

(***************************************************************************)
(* fetchCommits: the backend answers.  The window and hasMore are updated  *)
(* and the layout is computed in one synchronous stretch; an exception in  *)
(* that stretch is caught by the catch block, after which the finally      *)
(* block clears the loading flag.                                          *)
(***************************************************************************)
extendedWindow(f, newCommits) ==
    IF fetches[f].isLoadMore THEN loadedCommits \o newCommits ELSE newCommits

\* invoke("get_commits") resolves and the layout is computed
FetchResolve(f) ==
    /\ fetches[f].stage = "invoke"
    /\ LET response == get_commits(fetches[f].skip, dirty)
       IN  /\ loadedCommits' = extendedWindow(f, response.commits)
           /\ hasMore' = response.has_more
           /\ fetches' = [fetches EXCEPT ![f].stage = "getLayout",
                                         ![f].commits = extendedWindow(f, response.commits)]
    /\ ev' = [NoEv EXCEPT !.op = "resolve", !.flag = fetches[f].isLoadMore,
                          !.id = fetches[f].anchor, !.window = loadedCommits, !.n = f]
    /\ UNCHANGED <<diffVars, tabVars, serviceVars>>
    /\ UNCHANGED <<loading, calls, nodes, edges, dirty, layoutStore, dragVars,
                   isDragSubtreeMode, keyVars, saveVars>>

\* invoke("get_commits") rejects: catch, then finally
FetchReject(f) ==
    /\ fetches[f].stage = "invoke"
    /\ loading' = FALSE
    /\ fetches' = [fetches EXCEPT ![f] = IdleFetch]
    /\ ev' = [NoEv EXCEPT !.op = "failed", !.prevNodes = nodes, !.prevEdges = edges,
                          !.window = loadedCommits, !.flag = hasMore]
    /\ UNCHANGED <<diffVars, tabVars, serviceVars>>
    /\ UNCHANGED <<loadedCommits, hasMore, calls, nodes, edges, dirty, layoutStore, dragVars,
                   isDragSubtreeMode, keyVars, saveVars>>

\* invoke("get_commits") resolves, the window and hasMore are updated, and
\* getLayoutedElements throws on the page: catch, then finally
FetchLayoutThrows(f) ==
    /\ fetches[f].stage = "invoke"
    /\ LET response == get_commits(fetches[f].skip, dirty)
       IN  /\ loadedCommits' = extendedWindow(f, response.commits)
           /\ hasMore' = response.has_more
    /\ loading' = FALSE
    /\ fetches' = [fetches EXCEPT ![f] = IdleFetch]
    /\ ev' = [NoEv EXCEPT !.op = "failed", !.prevNodes = nodes, !.prevEdges = edges,
                          !.window = loadedCommits, !.flag = hasMore]
    /\ UNCHANGED <<diffVars, tabVars, serviceVars>>
    /\ UNCHANGED <<calls, nodes, edges, dirty, layoutStore, dragVars,
                   isDragSubtreeMode, keyVars, saveVars>>

(***************************************************************************)
(* The position reconciliation of fetchCommits.                            *)
(***************************************************************************)
isCached(cachedLayout, id) == cachedLayout.has /\ id \in DOMAIN cachedLayout.data

\* variant: the fresh dagre layout is not aligned to the anchor
dagreDeltaZero(currentNodes, newNodes, cachedLayout, anchor) == ZeroPos

\* incremental append: offset of the fresh dagre layout to the current view
dagreDelta(currentNodes, newNodes, cachedLayout, anchor) ==
    IF anchor \in DOMAIN currentNodes /\ anchor \in DOMAIN newNodes
    THEN PosSub(currentNodes[anchor], newNodes[anchor])
    ELSE ZeroPos

\* variant: the cached layout is not aligned to the anchor
cacheDeltaZero(currentNodes, newNodes, cachedLayout, anchor) == ZeroPos

\* incremental append: offset of the cached layout to the current view
cacheDelta(currentNodes, newNodes, cachedLayout, anchor) ==
    IF anchor \in DOMAIN currentNodes /\ isCached(cachedLayout, anchor)
    THEN PosSub(currentNodes[anchor], cachedLayout.data[anchor])
    ELSE ZeroPos

\* incremental append: the node of the new layout may take its cached position
useCachedPosition(cachedLayout, id, anchor) ==
    isCached(cachedLayout, id) /\ isCached(cachedLayout, anchor)

\* incremental append: the setNodes updater
appendNodes(currentNodes, newNodes, cachedLayout, anchor) ==
    [id \in DOMAIN newNodes |->
        IF id \in DOMAIN currentNodes
        THEN currentNodes[id]
        ELSE IF useCachedPosition(cachedLayout, id, anchor)
        THEN PosAdd(cachedLayout.data[id],
                    cacheDelta(currentNodes, newNodes, cachedLayout, anchor))
        ELSE PosAdd(newNodes[id],
                    dagreDelta(currentNodes, newNodes, cachedLayout, anchor))]

\* variant: only the first parent is looked at
parentDeltaOfFirstParent(parents, k, finalPositions, newNodes) ==
    IF Len(parents) > 0 /\ parents[1] \in DOMAIN finalPositions /\ parents[1] \in DOMAIN newNodes
    THEN PosSub(finalPositions[parents[1]], newNodes[parents[1]])
    ELSE ZeroPos

\* full reload: the offset a non-cached node takes from the first of its
\* parents that has a final position and a dagre position
RECURSIVE parentDelta(_, _, _, _)
parentDelta(parents, k, finalPositions, newNodes) ==
    IF k > Len(parents) THEN ZeroPos
    ELSE IF parents[k] \in DOMAIN finalPositions /\ parents[k] \in DOMAIN newNodes
    THEN PosSub(finalPositions[parents[k]], newNodes[parents[k]])
    ELSE parentDelta(parents, k + 1, finalPositions, newNodes)

\* full reload: the loop over nodesWithRepoPath (oldest commit first)
RECURSIVE resolveLoop(_, _, _, _)
resolveLoop(allCommits, k, finalPositions, newNodes) ==
    IF k > Len(allCommits) THEN finalPositions
    ELSE LET id == allCommits[k] IN
         IF id \in DOMAIN finalPositions
         THEN resolveLoop(allCommits, k + 1, finalPositions, newNodes)
         ELSE resolveLoop(allCommits, k + 1,
                 Merge(finalPositions,
                       [i \in {id} |->
                           PosAdd(newNodes[id],
                                  parentDelta(commitParents(id), 1, finalPositions, newNodes))]),
                 newNodes)

Reverse(s) == [k \in 1..Len(s) |-> s[Len(s) + 1 - k]]

\* variant: the cache is not looked at
reloadNodesOfDagre(currentNodes, commits, newNodes, cachedLayout) == newNodes

\* full reload: the node set handed to setNodes
reloadNodes(currentNodes, commits, newNodes, cachedLayout) ==
    IF cachedLayout.has
    THEN LET final == resolveLoop(Reverse(commits), 1, cachedLayout.data, newNodes)
         IN  [id \in DOMAIN newNodes |-> final[id]]
    ELSE newNodes

\* the number of edge timers that are set and have not fired
pendingTimers == Cardinality({g \in Calls : fetches[g].stage = "edgesTimer"})

\* layoutService.getLayout resolves; the nodes are set, the edge update is
\* scheduled and the finally block clears the loading flag
FetchApply(f) ==
    /\ fetches[f].stage = "getLayout"
    /\ LET layoutData == getLayoutedElements(fetches[f].commits)
           cachedLayout == layoutStore
       IN  nodes' = IF fetches[f].isLoadMore /\ fetches[f].anchor # NoId
                    THEN appendNodes(nodes, layoutData.nodes, cachedLayout, fetches[f].anchor)
                    ELSE reloadNodes(nodes, fetches[f].commits, layoutData.nodes, cachedLayout)
    /\ loading' = FALSE
    /\ fetches' = [fetches EXCEPT ![f].stage = "edgesTimer",
                                  ![f].timer = pendingTimers + 1]
    /\ ev' = [NoEv EXCEPT !.op = IF fetches[f].isLoadMore /\ fetches[f].anchor # NoId
                                 THEN "append" ELSE "reload",
                          !.prevNodes = nodes, !.cache = layoutStore,
                          !.id = fetches[f].anchor, !.ids = Range(fetches[f].commits),
                          !.n = f]
    /\ UNCHANGED <<diffVars, tabVars, serviceVars>>
    /\ UNCHANGED <<loadedCommits, hasMore, calls, edges, dirty, layoutStore, dragVars,
                   isDragSubtreeMode, keyVars, saveVars>>

\* the 10 ms timer of the call fires: the edges of its layout are set.
\* Timers of the same delay fire in the order in which they were set
FetchEdgesTimeout(f) ==
    /\ fetches[f].stage = "edgesTimer"
    /\ fetches[f].timer = 1
    /\ edges' = getLayoutedElements(fetches[f].commits).edges
    /\ fetches' = [g \in Calls |->
                      IF g = f THEN IdleFetch
                      ELSE IF fetches[g].stage = "edgesTimer"
                      THEN [fetches[g] EXCEPT !.timer = @ - 1]
                      ELSE fetches[g]]
    /\ ev' = [NoEv EXCEPT !.op = "edges", !.ids = Range(fetches[f].commits),
                          !.prevEdges = edges, !.n = f]
    /\ UNCHANGED <<diffVars, tabVars, serviceVars>>
    /\ UNCHANGED <<loadedCommits, hasMore, loading, calls, nodes, dirty, layoutStore, dragVars,
                   isDragSubtreeMode, keyVars, saveVars>>

\* the user edits or commits files: uncommitted changes appear or disappear
RepositoryChanges ==
    /\ dirty' = ~dirty
    /\ ev' = NoEv
    /\ UNCHANGED <<diffVars, tabVars, serviceVars>>
    /\ UNCHANGED <<fetchVars, nodes, edges, layoutStore,
                   dragVars, isDragSubtreeMode, keyVars, saveVars>>

(***************************************************************************)
(* Modifier keys and the drag mode setting.                                *)
(***************************************************************************)
ModifierKeys == {"Control", "Meta"}

handleKeyDown(key) ==
    /\ key \notin keysDown
    /\ keysDown' = keysDown \cup {key}
    /\ isCtrlPressed' = TRUE
    /\ ev' = NoEv
    /\ UNCHANGED <<diffVars, tabVars, serviceVars>>
    /\ UNCHANGED <<fetchVars, nodes, edges, dirty, layoutStore, dragVars,
                   isDragSubtreeMode, saveVars>>

handleKeyUp(key) ==
    /\ key \in keysDown
    /\ keysDown' = keysDown \ {key}
    /\ isCtrlPressed' = FALSE
    /\ ev' = NoEv
    /\ UNCHANGED <<diffVars, tabVars, serviceVars>>
    /\ UNCHANGED <<fetchVars, nodes, edges, dirty, layoutStore, dragVars,
                   isDragSubtreeMode, saveVars>>

setIsDragSubtreeMode(mode) ==
    /\ mode # isDragSubtreeMode
    /\ isDragSubtreeMode' = mode
    /\ ev' = NoEv
    /\ UNCHANGED <<diffVars, tabVars, serviceVars>>
    /\ UNCHANGED <<fetchVars, nodes, edges, dirty, layoutStore, dragVars, keyVars, saveVars>>

(***************************************************************************)
(* The drag gesture.  The rendering surface reports the position of the    *)
(* dragged node on every tick and has put the node there.                  *)
(***************************************************************************)
\* the movements of the pointer between two ticks
DragDeltas == {Pos(10, 5)}

onNodeDragStart(id) ==
    /\ dragging = NoId
    /\ id \in DOMAIN nodes
    /\ dragging' = id
    /\ dragMoved' = FALSE
    /\ lastNodePos' = nodes[id]
    /\ ev' = NoEv
    /\ UNCHANGED <<diffVars, tabVars, serviceVars>>
    /\ UNCHANGED <<fetchVars, nodes, edges, dirty, layoutStore, ticks,
                   isDragSubtreeMode, keyVars, saveVars>>

\* effective mode of a tick
isSubtreeDrag == IF isDragSubtreeMode THEN ~isCtrlPressed ELSE isCtrlPressed

\* variant: the edges are followed from target to source
RECURSIVE findAncestorsFrom(_, _, _)
findAncestorsFrom(queue, ancestors, es) ==
    IF queue = {} THEN ancestors
    ELSE LET currentId == CHOOSE q \in queue : TRUE
             found == {e.source : e \in {c \in es : c.target = currentId}} \ ancestors
         IN  findAncestorsFrom((queue \ {currentId}) \cup found, ancestors \cup found, es)

findAncestors(id, es) == findAncestorsFrom({id}, {}, es)

\* targets of the edges that leave one of the nodes of the queue, breadth first
RECURSIVE findDescendantsFrom(_, _, _)
findDescendantsFrom(queue, descendants, es) ==
    IF queue = {} THEN descendants
    ELSE LET currentId == CHOOSE q \in queue : TRUE
             found == {e.target : e \in {c \in es : c.source = currentId}} \ descendants
         IN  findDescendantsFrom((queue \ {currentId}) \cup found, descendants \cup found, es)

findDescendants(id, es) == findDescendantsFrom({id}, {}, es)

\* the setNodes updater of the drag handler
moveDescendants(nds, descendants, d) ==
    [n \in DOMAIN nds |-> IF n \in descendants THEN PosAdd(nds[n], d) ELSE nds[n]]

onNodeDragHandler(d) ==
    /\ dragging \in DOMAIN nodes
    /\ ticks' = ticks + 1
    /\ dragMoved' = TRUE
    /\ LET position == PosAdd(lastNodePos, d)
           surface == [nodes EXCEPT ![dragging] = position]
           descendants == findDescendants(dragging, edges)
       IN  /\ lastNodePos' = position
           /\ nodes' = IF isSubtreeDrag /\ descendants # {}
                       THEN moveDescendants(surface, descendants, PosSub(position, lastNodePos))
                       ELSE surface
    /\ ev' = [NoEv EXCEPT !.op = "drag", !.prevNodes = nodes, !.id = dragging,
                          !.delta = d, !.flag = isSubtreeDrag]
    /\ UNCHANGED <<diffVars, tabVars, serviceVars>>
    /\ UNCHANGED <<fetchVars, edges, dirty, layoutStore, dragging,
                   isDragSubtreeMode, keyVars, saveVars>>

(***************************************************************************)
(* Drag end and the debounced save of the layout.                          *)
(***************************************************************************)
\* variant: only the position of the dragged node is saved
layoutDataOfDragged(allNodes) ==
    [id \in {n \in DOMAIN allNodes : n = dragging} |-> allNodes[id]]

\* the position map of the nodes of the view
layoutDataOf(allNodes) == [id \in DOMAIN allNodes |-> allNodes[id]]

\* debounce(fn, 500): a call replaces the pending call and restarts the delay
debounceCall(timer, args) == [pending |-> TRUE, args |-> args]

onNodeDragStop ==
    /\ dragging # NoId
    /\ dragMoved
    /\ dragging' = NoId
    /\ dragMoved' = FALSE
    /\ debounceTimer' = debounceCall(debounceTimer, layoutDataOf(nodes))
    /\ saveLog' = [saveLog EXCEPT !.burst = @ + 1,
                                   !.bursts = IF saveLog.burst = 0 THEN @ + 1 ELSE @,
                                   !.lastStop = nodes]
    /\ ev' = [NoEv EXCEPT !.op = "dragStop", !.flag = debounceTimer.pending]
    /\ UNCHANGED <<diffVars, tabVars, serviceVars>>
    /\ UNCHANGED <<fetchVars, nodes, edges, dirty, layoutStore, lastNodePos, ticks,
                   isDragSubtreeMode, keyVars>>

\* the delay has passed since the last call: the debounced function runs
DebounceFires ==
    /\ debounceTimer.pending
    /\ layoutStore' = saveLayout(layoutStore, debounceTimer.args)
    /\ store' = serviceSaveLayout(store, repoPath, debounceTimer.args)
    /\ debounceTimer' = NoTimer
    /\ saveLog' = [saveLog EXCEPT !.saves = @ + 1, !.burst = 0]
    /\ ev' = [NoEv EXCEPT !.op = "save", !.prevNodes = debounceTimer.args,
                          !.n = saveLog.burst]
    /\ UNCHANGED <<diffVars, tabVars, layouted, serviceCalls>>
    /\ UNCHANGED <<fetchVars, nodes, edges, dirty, dragVars, isDragSubtreeMode, keyVars>>

(***************************************************************************)
(* Diff mode.  diffMode lives in the store that all tabs share; the        *)
(* virtual node and the diff arrow live in the nodes and edges of the tab  *)
(* under the cursor.  The arrow is the edge with id "diff-arrow": the one  *)
(* edge whose target is the virtual node.                                  *)
(***************************************************************************)
viewVars == <<fetchVars, nodes, edges, dirty, dragVars, isDragSubtreeMode, keyVars, saveVars>>

\* cursor positions in graph coordinates
CursorPositions == {Pos(7, 7), Pos(8, 9)}

isDiffArrow(e) == e.target = DiffArrowNodeId
diffArrow(sourceCommitId) ==
    [source |-> sourceCommitId, target |-> DiffArrowNodeId, dashed |-> FALSE]

\* prevEdges.filter((e) => e.id !== "diff-arrow")
withoutDiffArrow(es) == {e \in es : ~isDiffArrow(e)}
\* prevNodes.filter((n) => n.id !== diffArrowNodeId)
withoutVirtualNode(nds) == [n \in (DOMAIN nds) \ {DiffArrowNodeId} |-> nds[n]]

\* the store actions
startDiffMode(sourceCommitId) ==
    [active |-> TRUE, sourceCommitId |-> sourceCommitId, targetCommitId |-> NoId]
endDiffMode == [active |-> FALSE, sourceCommitId |-> NoId, targetCommitId |-> NoId]
setDiffTarget(targetCommitId) == [diffMode EXCEPT !.targetCommitId = targetCommitId]

\* CommitNode of this tab: the button "Diff with another commit"
onDiffWithAnotherCommit(id) ==
    /\ activeRepo = repoPath
    /\ ~showDiffDialog
    /\ id \in (DOMAIN nodes) \cap CommitIds
    /\ diffMode' = startDiffMode(id)
    /\ ev' = [NoEv EXCEPT !.op = "startDiffMode", !.id = id, !.window = repoPath,
                          !.diff = diffMode]
    /\ UNCHANGED <<viewVars, layoutStore, showDiffDialog, tabVars, serviceVars>>

\* mouse move over the tab, the open diff dialog included
handleMouseMove(cursor) ==
    /\ activeRepo = repoPath
    /\ diffMode.active /\ diffMode.sourceCommitId # NoId
    /\ edges' = withoutDiffArrow(edges) \cup {diffArrow(diffMode.sourceCommitId)}
    /\ nodes' = [n \in (DOMAIN nodes) \cup {DiffArrowNodeId} |->
                    IF n = DiffArrowNodeId THEN cursor ELSE nodes[n]]
    /\ ev' = [NoEv EXCEPT !.op = "mouseMove", !.prevNodes = nodes, !.prevEdges = edges,
                          !.diff = diffMode]
    /\ UNCHANGED <<fetchVars, dirty, dragVars, isDragSubtreeMode, keyVars, saveVars,
                   layoutStore, diffVars, tabVars, serviceVars>>

\* the diff mode of the store ends and this tab removes its arrow
cancelDiff ==
    /\ diffMode' = endDiffMode
    /\ edges' = withoutDiffArrow(edges)
    /\ nodes' = withoutVirtualNode(nodes)

\* click on empty canvas, or a click that bubbles up to the container
handleCanvasClick ==
    /\ activeRepo = repoPath
    /\ IF diffMode.active /\ ~showDiffDialog
       THEN cancelDiff
       ELSE UNCHANGED <<diffMode, edges, nodes>>
    /\ ev' = [NoEv EXCEPT !.op = "canvasClick", !.window = repoPath, !.prevNodes = nodes,
                          !.prevEdges = edges, !.diff = diffMode, !.flag = showDiffDialog]
    /\ UNCHANGED <<fetchVars, dirty, dragVars, isDragSubtreeMode, keyVars, saveVars,
                   layoutStore, showDiffDialog, tabVars, serviceVars>>

\* the Escape key: handleKeyDown of the window, and the open dialog is
\* dismissed through its onClose
handleEscape ==
    /\ IF diffMode.active \/ showDiffDialog
       THEN cancelDiff
       ELSE UNCHANGED <<diffMode, edges, nodes>>
    /\ showDiffDialog' = FALSE
    /\ ev' = [NoEv EXCEPT !.op = "escape", !.prevNodes = nodes, !.prevEdges = edges,
                          !.diff = diffMode, !.flag = showDiffDialog]
    /\ UNCHANGED <<fetchVars, dirty, dragVars, isDragSubtreeMode, keyVars, saveVars,
                   layoutStore, tabVars, serviceVars>>

\* click on a commit node.  Outside diff mode and on the working-copy node
\* the handler returns before stopPropagation and the click reaches the
\* container; on another node the target is set and the dialog opens
handleNodeClick(id) ==
    /\ activeRepo = repoPath
    /\ ~showDiffDialog
    /\ id \in (DOMAIN nodes) \cap CommitIds
    /\ IF ~diffMode.active \/ diffMode.sourceCommitId = NoId
       THEN UNCHANGED <<diffMode, showDiffDialog, edges, nodes>>
       ELSE IF id = WorkingCopy
            THEN cancelDiff /\ UNCHANGED showDiffDialog
            ELSE /\ diffMode' = setDiffTarget(id)
                 /\ showDiffDialog' = TRUE
                 /\ edges' = withoutDiffArrow(edges)
                 /\ nodes' = withoutVirtualNode(nodes)
    /\ ev' = [NoEv EXCEPT !.op = "nodeClick", !.id = id, !.prevNodes = nodes,
                          !.prevEdges = edges, !.diff = diffMode]
    /\ UNCHANGED <<fetchVars, dirty, dragVars, isDragSubtreeMode, keyVars, saveVars,
                   layoutStore, tabVars, serviceVars>>

\* DiffDialog onClose
onDiffDialogClose ==
    /\ showDiffDialog
    /\ showDiffDialog' = FALSE
    /\ cancelDiff
    /\ ev' = [NoEv EXCEPT !.op = "dialogClose", !.prevNodes = nodes, !.prevEdges = edges,
                          !.diff = diffMode]
    /\ UNCHANGED <<fetchVars, dirty, dragVars, isDragSubtreeMode, keyVars, saveVars,
                   layoutStore, tabVars, serviceVars>>

(***************************************************************************)
(* The tab container.  Every open repository has a mounted GitGraphView;   *)
(* the view of repoPath is the one modelled, the view of otherRepoPath is  *)
(* seen through what it writes to the store that the views share:          *)
(* repoPath and onRefreshRequest of the store and diffMode.                *)
(***************************************************************************)
\* a commit of the other repository
otherCommitId == "q1"

\* Open Repo with the selected directory; a new view is mounted and its
\* effects run setRepoPath and setRefreshCallback
handleOpenRepo(selected) ==
    /\ IF \E i \in DOMAIN openRepos : openRepos[i] = selected
       THEN UNCHANGED <<openRepos, storeRepoPath, onRefreshRequest>>
       ELSE /\ openRepos' = Append(openRepos, selected)
            /\ storeRepoPath' = selected
            /\ onRefreshRequest' = selected
    /\ activeRepo' = selected
    /\ ev' = [NoEv EXCEPT !.op = "openRepo", !.window = selected]
    /\ UNCHANGED <<viewVars, layoutStore, diffVars, serviceVars>>

\* the tab of the other repository is closed; the cleanup of its effect
\* replaces the refresh callback of the store by one that does nothing
closeRepo(path) ==
    /\ path = otherRepoPath
    /\ \E i \in DOMAIN openRepos : openRepos[i] = path
    /\ LET newRepos == SelectSeq(openRepos, LAMBDA p : p # path)
       IN  /\ openRepos' = newRepos
           /\ activeRepo' = IF activeRepo = path THEN newRepos[Len(newRepos)] ELSE activeRepo
    /\ onRefreshRequest' = NoPath
    /\ ev' = [NoEv EXCEPT !.op = "closeRepo", !.window = path]
    /\ UNCHANGED <<viewVars, layoutStore, diffVars, serviceVars, storeRepoPath>>

\* refreshGraph of the store, as far as this view is concerned: the
\* callback of this view is the registered one
refreshesThisTab == onRefreshRequest = repoPath /\ storeRepoPath # NoPath

\* a checkout (or pull, push, branch operation) in the visible tab of path
\* has succeeded and calls refreshGraph
checkoutCommit(path) ==
    /\ activeRepo = path
    /\ \E i \in DOMAIN openRepos : openRepos[i] = path
    /\ IF refreshesThisTab
       THEN fetchCommitsCall(FALSE, path)
       ELSE /\ ev' = [NoEv EXCEPT !.op = "operation", !.window = path]
            /\ UNCHANGED <<viewVars, layoutStore, diffVars, tabVars, serviceVars>>

\* the button "Diff with another commit" on a commit of the other tab
otherTabStartsDiff ==
    /\ activeRepo = otherRepoPath
    /\ diffMode' = startDiffMode(otherCommitId)
    /\ ev' = [NoEv EXCEPT !.op = "startDiffMode", !.id = otherCommitId,
                          !.window = otherRepoPath, !.diff = diffMode]
    /\ UNCHANGED <<viewVars, layoutStore, showDiffDialog, tabVars, serviceVars>>

\* handleCanvasClick of the other tab, which has no dialog open
otherTabCanvasClick ==
    /\ activeRepo = otherRepoPath
    /\ diffMode' = IF diffMode.active THEN endDiffMode ELSE diffMode
    /\ ev' = [NoEv EXCEPT !.op = "canvasClick", !.window = otherRepoPath,
                          !.prevNodes = nodes, !.prevEdges = edges, !.diff = diffMode]
    /\ UNCHANGED <<viewVars, layoutStore, showDiffDialog, tabVars, serviceVars>>

(***************************************************************************)
(* Calls of the LayoutService by any of its users (the tabs, the cache     *)
(* settings), with paths that name a repository in several spellings.      *)
(***************************************************************************)
ServicePaths == {repoPath, repoPath \o <<"/", "\\">>, otherRepoPath, otherRepoPath \o <<"/">>}
ServiceLayouts ==
    {[id \in {"c1"} |-> Pos(1, 2)],
     [id \in {"c2"} |-> Pos(3, 4)],
     [id \in {"c1", "c2"} |-> IF id = "c1" THEN Pos(3, 4) ELSE Pos(1, 2)]}

saveLayoutCall(path, layout) ==
    /\ store' = serviceSaveLayout(store, path, layout)
    /\ layoutStore' = getLayout(store', repoPath)
    /\ ev' = [NoEv EXCEPT !.op = "saveLayout", !.window = path, !.prevNodes = layout,
                          !.cache = getLayout(store, path)]
    /\ UNCHANGED <<viewVars, diffVars, tabVars, layouted, serviceCalls>>

getLayoutCall(path) ==
    /\ ev' = [NoEv EXCEPT !.op = "getLayout", !.window = path,
                          !.cache = getLayout(store, path)]
    /\ UNCHANGED <<viewVars, diffVars, tabVars, serviceVars, layoutStore>>

clearLayoutCall(path) ==
    /\ store' = clearLayout(store, path)
    /\ layoutStore' = getLayout(store', repoPath)
    /\ ev' = [NoEv EXCEPT !.op = "clearLayout", !.window = path,
                          !.cache = getLayout(store, path)]
    /\ UNCHANGED <<viewVars, diffVars, tabVars, layouted, serviceCalls>>

(***************************************************************************)
(* saveLayout and clearLayout step by step: each await of a store          *)
(* operation is a point at which the other call can run.                   *)
(***************************************************************************)
\* saveLayout up to 'existing = (await store.get(key)) || {}'
saveLayoutGet(path, layout) ==
    /\ serviceCalls.save.stage = "idle"
    /\ serviceCalls' = [serviceCalls EXCEPT !.save =
                           [stage |-> "set", path |-> path, layout |-> layout,
                            existing |-> storeGet(store, getStoreKey(path)).data]]
    /\ ev' = [NoEv EXCEPT !.op = "saveGet", !.window = path, !.prevNodes = layout]
    /\ UNCHANGED <<viewVars, layoutStore, diffVars, tabVars, store, layouted>>

\* 'await store.set(key, { ...existing, ...layout })'
saveLayoutSet ==
    /\ serviceCalls.save.stage = "set"
    /\ LET call == serviceCalls.save
       IN  /\ store' = storeSet(store, getStoreKey(call.path),
                                [has |-> TRUE, data |-> Merge(call.existing, call.layout)])
           /\ ev' = [NoEv EXCEPT !.op = "saveSet", !.window = call.path,
                                 !.prevNodes = call.layout,
                                 !.cache = getLayout(store, call.path)]
    /\ layoutStore' = getLayout(store', repoPath)
    /\ serviceCalls' = [serviceCalls EXCEPT !.save.stage = "index"]
    /\ UNCHANGED <<viewVars, diffVars, tabVars, layouted>>

\* 'await this.updateIndex(repoPath, "add")', and the call returns
saveLayoutIndex ==
    /\ serviceCalls.save.stage = "index"
    /\ store' = updateIndex(store, serviceCalls.save.path, "add")
    /\ serviceCalls' = [serviceCalls EXCEPT !.save = NoServiceCall]
    /\ ev' = [NoEv EXCEPT !.op = "saveIndex", !.window = serviceCalls.save.path]
    /\ UNCHANGED <<viewVars, layoutStore, diffVars, tabVars, layouted>>

\* clearLayout up to 'await store.set(key, null)'
clearLayoutSet(path) ==
    /\ serviceCalls.clear.stage = "idle"
    /\ store' = storeSet(store, getStoreKey(path), NoLayout)
    /\ layoutStore' = getLayout(store', repoPath)
    /\ serviceCalls' = [serviceCalls EXCEPT !.clear = [NoServiceCall EXCEPT !.stage = "index",
                                                                            !.path = path]]
    /\ ev' = [NoEv EXCEPT !.op = "clearSet", !.window = path,
                          !.cache = getLayout(store, path)]
    /\ UNCHANGED <<viewVars, diffVars, tabVars, layouted>>

\* 'await this.updateIndex(repoPath, "remove")', and the call returns
clearLayoutIndex ==
    /\ serviceCalls.clear.stage = "index"
    /\ store' = updateIndex(store, serviceCalls.clear.path, "remove")
    /\ serviceCalls' = [serviceCalls EXCEPT !.clear = NoServiceCall]
    /\ ev' = [NoEv EXCEPT !.op = "clearIndex", !.window = serviceCalls.clear.path]
    /\ UNCHANGED <<viewVars, layoutStore, diffVars, tabVars, layouted>>

(***************************************************************************)
(* getLayoutedElements called with a list of commits of the history and    *)
(* with the same commits in another order.                                 *)
(***************************************************************************)
\* the lists of distinct commits
CommitLists ==
    UNION {{l \in [1..k -> CommitIds] : \A i, j \in 1..k : l[i] = l[j] => i = j} :
              k \in 0..(NumCommits + 1)}

\* the same commits in every order
Orders(commits) ==
    {[i \in DOMAIN commits |-> commits[pi[i]]] : pi \in Permutations(DOMAIN commits)}

getLayoutedElementsCall(commits, other) ==
    /\ Range(other) = Range(commits)
    /\ LET layoutData == getLayoutedElements(commits)
           otherData == getLayoutedElements(other)
       IN  layouted' = [commits |-> commits, nodes |-> layoutData.nodes,
                        edges |-> layoutData.edges, other |-> other,
                        otherNodes |-> otherData.nodes, otherEdges |-> otherData.edges]
    /\ ev' = [NoEv EXCEPT !.op = "layout", !.n = Len(commits)]
    /\ UNCHANGED <<viewVars, layoutStore, diffVars, tabVars, store, serviceCalls>>

(***************************************************************************)
(* The tab.                                                                *)
(***************************************************************************)
\* no fetchCommits call is waiting for the backend or for the layout cache
Quiet == \A f \in Calls : fetches[f].stage \notin {"invoke", "getLayout"}

\* no fetchCommits call is in progress and no edge update is scheduled
Idle == \A f \in Calls : fetches[f].stage = "idle"

\* a session in which the user lets every fetch finish before the next one
\* starts, drags single nodes between the fetches and lets the layout be saved
Next ==
    \/ calls < MaxCalls /\ Idle /\ InitialLoadEffect
    \/ calls < MaxCalls /\ Idle /\ handleRefresh
    \/ calls < MaxCalls /\ Idle /\ handleLoadMore
    \/ \E f \in Calls : FetchResolve(f)
    \/ \E f \in Calls : FetchReject(f)
    \/ \E f \in Calls : FetchLayoutThrows(f)
    \/ \E f \in Calls : FetchApply(f)
    \/ \E f \in Calls : FetchEdgesTimeout(f)
    \/ \E id \in CommitIds : ticks < MaxMoves /\ Idle /\ onNodeDragStart(id)
    \/ \E d \in DragDeltas : ticks < MaxMoves /\ Idle /\ onNodeDragHandler(d)
    \/ Idle /\ onNodeDragStop
    \/ DebounceFires

Spec == Init /\ [][Next]_vars

\* fetches that overlap: the tab is reloaded (activated, or refreshed after a
\* checkout) while other fetchCommits calls are in flight, and the
\* repository changes meanwhile
NextOverlap ==
    \/ calls < MaxOverlapCalls /\ InitialLoadEffect
    \/ calls < MaxOverlapCalls /\ handleRefresh
    \/ calls < MaxOverlapCalls /\ handleLoadMore
    \/ \E f \in Calls : FetchResolve(f)
    \/ \E f \in Calls : FetchReject(f)
    \/ \E f \in Calls : FetchLayoutThrows(f)
    \/ \E f \in Calls : FetchApply(f)
    \/ \E f \in Calls : FetchEdgesTimeout(f)
    \/ RepositoryChanges

InitOverlap == Init /\ ~dirty /\ layoutStore = NoLayout

SpecOverlap == InitOverlap /\ [][NextOverlap]_vars

\* fetches that overlap, all of which succeed, on a repository that does
\* not change
NextRace ==
    \/ calls < MaxOverlapCalls /\ InitialLoadEffect
    \/ calls < MaxOverlapCalls /\ handleRefresh
    \/ calls < MaxOverlapCalls /\ handleLoadMore
    \/ \E f \in Calls : FetchResolve(f)
    \/ \E f \in Calls : FetchApply(f)
    \/ \E f \in Calls : FetchEdgesTimeout(f)

SpecRace == InitOverlap /\ [][NextRace]_vars

\* drag gestures with the modifier keys and the drag mode setting, on a
\* graph loaded page by page
InitDrag == Init /\ ~dirty /\ layoutStore = NoLayout

NextDrag ==
    \/ calls < MaxCalls /\ Idle /\ InitialLoadEffect
    \/ calls < MaxCalls /\ Idle /\ handleLoadMore
    \/ \E f \in Calls : FetchResolve(f)
    \/ \E f \in Calls : FetchApply(f)
    \/ \E f \in Calls : FetchEdgesTimeout(f)
    \/ \E key \in ModifierKeys : handleKeyDown(key)
    \/ \E key \in ModifierKeys : handleKeyUp(key)
    \/ \E mode \in BOOLEAN : dragging = NoId /\ setIsDragSubtreeMode(mode)
    \/ \E id \in CommitIds : ticks < MaxTicks /\ Quiet /\ onNodeDragStart(id)
    \/ \E d \in DragDeltas : ticks < MaxTicks /\ Quiet /\ onNodeDragHandler(d)
    \/ Quiet /\ onNodeDragStop

SpecDrag == InitDrag /\ [][NextDrag]_vars

\* the tab is loaded once; drag gestures end and the debounced save runs
NextSave ==
    \/ calls = 0 /\ InitialLoadEffect
    \/ \E f \in Calls : FetchResolve(f)
    \/ \E f \in Calls : FetchApply(f)
    \/ \E f \in Calls : FetchEdgesTimeout(f)
    \/ \E id \in CommitIds : ticks < MaxTicks /\ onNodeDragStart(id)
    \/ \E d \in DragDeltas : ticks < MaxTicks /\ onNodeDragHandler(d)
    \/ onNodeDragStop
    \/ DebounceFires

SpecSave == InitDrag /\ [][NextSave]_vars

FairSpecSave == SpecSave /\ WF_vars(DebounceFires)

\* the tab is loaded once; diff mode, drag gestures and the debounced save
InitDiff == Init /\ layoutStore = NoLayout

NextDiff ==
    \/ calls = 0 /\ InitialLoadEffect
    \/ \E f \in Calls : FetchResolve(f)
    \/ \E f \in Calls : FetchApply(f)
    \/ \E f \in Calls : FetchEdgesTimeout(f)
    \/ \E id \in CommitIds : onDiffWithAnotherCommit(id)
    \* while a node is dragged the mouse moves go to the drag gesture
    \/ \E cursor \in CursorPositions : dragging = NoId /\ handleMouseMove(cursor)
    \/ \E id \in CommitIds : handleNodeClick(id)
    \/ handleCanvasClick
    \/ handleEscape
    \/ onDiffDialogClose
    \/ \E id \in CommitIds : ticks < MaxMoves /\ ~showDiffDialog /\ onNodeDragStart(id)
    \/ \E d \in DragDeltas : ticks < MaxMoves /\ onNodeDragHandler(d)
    \/ onNodeDragStop
    \/ DebounceFires

SpecDiff == InitDiff /\ [][NextDiff]_vars

\* diff mode of one tab while the toolbar reloads the graph and loads older
\* commits
NextDiffFetch ==
    \/ calls = 0 /\ InitialLoadEffect
    \/ calls < MaxCalls /\ Idle /\ handleRefresh
    \/ calls < MaxCalls /\ Idle /\ handleLoadMore
    \/ \E f \in Calls : FetchResolve(f)
    \/ \E f \in Calls : FetchApply(f)
    \/ \E f \in Calls : FetchEdgesTimeout(f)
    \/ \E id \in CommitIds : onDiffWithAnotherCommit(id)
    \/ \E cursor \in CursorPositions : handleMouseMove(cursor)
    \/ \E id \in CommitIds : handleNodeClick(id)
    \/ handleCanvasClick
    \/ handleEscape
    \/ onDiffDialogClose

SpecDiffFetch == InitDiff /\ [][NextDiffFetch]_vars

\* two tabs: the other repository is opened and closed, the tabs are
\* switched, and diff mode and repository operations are used in both
NextTabs ==
    \/ calls < MaxCalls /\ Idle /\ InitialLoadEffect
    \/ calls < MaxCalls /\ Idle /\ activeRepo = repoPath /\ handleRefresh
    \/ \E f \in Calls : FetchResolve(f)
    \/ \E f \in Calls : FetchApply(f)
    \/ \E f \in Calls : FetchEdgesTimeout(f)
    \/ \E selected \in {repoPath, otherRepoPath} : handleOpenRepo(selected)
    \/ closeRepo(otherRepoPath)
    \/ \E path \in {repoPath, otherRepoPath} : calls < MaxCalls /\ Idle /\ checkoutCommit(path)
    \/ \E id \in CommitIds : onDiffWithAnotherCommit(id)
    \/ \E cursor \in CursorPositions : handleMouseMove(cursor)
    \/ \E id \in CommitIds : handleNodeClick(id)
    \/ handleCanvasClick
    \/ handleEscape
    \/ onDiffDialogClose
    \/ otherTabStartsDiff
    \/ otherTabCanvasClick

SpecTabs == InitDiff /\ [][NextTabs]_vars

\* a session with a layout cache from earlier sessions: loads, drags that
\* are saved, and the cache of a repository cleared in the cache settings
NextClear ==
    \/ calls < MaxCalls /\ Idle /\ InitialLoadEffect
    \/ calls < MaxCalls /\ Idle /\ handleRefresh
    \/ calls < MaxCalls /\ Idle /\ handleLoadMore
    \/ \E f \in Calls : FetchResolve(f)
    \/ \E f \in Calls : FetchApply(f)
    \/ \E f \in Calls : FetchEdgesTimeout(f)
    \/ \E id \in CommitIds : ticks < MaxMoves /\ Idle /\ onNodeDragStart(id)
    \/ \E d \in DragDeltas : ticks < MaxMoves /\ Idle /\ onNodeDragHandler(d)
    \/ Idle /\ onNodeDragStop
    \/ DebounceFires
    \/ \E path \in ServicePaths : clearLayoutCall(path)

SpecClear == Init /\ [][NextClear]_vars

\* the LayoutService under calls with every path and layout
InitService == Init /\ ~dirty /\ layoutStore = NoLayout

NextService ==
    \/ \E path \in ServicePaths, layout \in ServiceLayouts : saveLayoutCall(path, layout)
    \/ \E path \in ServicePaths : getLayoutCall(path)
    \/ \E path \in ServicePaths : clearLayoutCall(path)

SpecService == InitService /\ [][NextService]_vars

\* the LayoutService with a saveLayout and a clearLayout call that
\* interleave at their awaits
AwaitPaths == {repoPath, repoPath \o <<"/", "\\">>, otherRepoPath}
NextServiceAwaits ==
    \/ \E path \in AwaitPaths, layout \in ServiceLayouts : saveLayoutGet(path, layout)
    \/ saveLayoutSet
    \/ saveLayoutIndex
    \/ \E path \in AwaitPaths : clearLayoutSet(path)
    \/ clearLayoutIndex

SpecServiceAwaits == InitService /\ [][NextServiceAwaits]_vars

\* getLayoutedElements under one call with every list of commits
NextLayout ==
    \E commits \in CommitLists : \E other \in Orders(commits) :
        layouted = NoCall /\ getLayoutedElementsCall(commits, other)

SpecLayout == InitService /\ [][NextLayout]_vars

(***************************************************************************)
(* Properties.  ev describes the step that led to the state: ev.prevNodes  *)
(* and ev.prevEdges are the node and edge sets before it, ev.cache the     *)
(* cached layout it read, ev.id its anchor or dragged node, ev.ids the     *)
(* commits of its layout.                                                  *)
(***************************************************************************)
InFlight == {f \in Calls : fetches[f].stage \in {"invoke", "getLayout"}}
realCommitCount == Cardinality({i \in DOMAIN loadedCommits : loadedCommits[i] # WorkingCopy})
freshDefault == layoutNodes(ev.ids)
anchorLive == ev.id \in DOMAIN ev.prevNodes
appended == (DOMAIN nodes) \ (DOMAIN ev.prevNodes)

\* C1: after an incremental append every node that was rendered before the
\* append is still rendered and has the position it had before
C1_AppendKeepsRenderedNodes ==
    ev.op = "append" =>
        \A n \in DOMAIN ev.prevNodes : n \in DOMAIN nodes /\ nodes[n] = ev.prevNodes[n]

\* C2: in a full reload every node that is already rendered keeps its live
\* position, whatever its cached and default positions are
C2_ReloadKeepsLivePositions ==
    ev.op = "reload" =>
        \A n \in (DOMAIN nodes) \cap (DOMAIN ev.prevNodes) : nodes[n] = ev.prevNodes[n]

\* C5: a load-more request asks for the page after the real commits of the
\* window (the working-copy commit is not counted); a full reload asks for
\* the first page
C5_SkipCountsRealCommits ==
    ev.op = "request" =>
        fetches[calls].skip = IF fetches[calls].isLoadMore THEN realCommitCount ELSE 0

C5_Witness ==
    /\ ev.op = "request"
    /\ fetches[calls].isLoadMore
    /\ WorkingCopy \in Range(loadedCommits)
    /\ fetches[calls].skip = limit

\* C7 as stated: in an incremental append every node that is not live and is
\* cached is placed at its cached position plus cacheDelta, which is zero
\* when the anchor has no cached or no live position
C7_CachedNodesUseCacheDelta ==
    ev.op = "append" =>
        \A n \in appended :
            isCached(ev.cache, n) =>
                nodes[n] = PosAdd(ev.cache.data[n],
                                  IF anchorLive /\ isCached(ev.cache, ev.id)
                                  THEN PosSub(ev.prevNodes[ev.id], ev.cache.data[ev.id])
                                  ELSE ZeroPos)

\* the offset of the fresh default layout to the live anchor
defaultDeltaOfAnchor ==
    IF anchorLive /\ ev.id \in DOMAIN freshDefault
    THEN PosSub(ev.prevNodes[ev.id], freshDefault[ev.id])
    ELSE ZeroPos

\* C7 amended: in an incremental append a node that is not live and is
\* cached is placed at its cached position plus cacheDelta when the anchor
\* is cached too (cacheDelta is the live minus the cached position of the
\* anchor, zero when the anchor is not live); when the anchor is not cached
\* the node is placed like a node that is not cached
C7_CachedNodesWithCachedAnchor ==
    ev.op = "append" =>
        \A n \in appended :
            isCached(ev.cache, n) =>
                IF isCached(ev.cache, ev.id)
                THEN nodes[n] = PosAdd(ev.cache.data[n],
                                       IF anchorLive
                                       THEN PosSub(ev.prevNodes[ev.id], ev.cache.data[ev.id])
                                       ELSE ZeroPos)
                ELSE nodes[n] = PosAdd(freshDefault[n], defaultDeltaOfAnchor)

C7_Witness ==
    /\ ev.op = "append"
    /\ anchorLive
    /\ isCached(ev.cache, ev.id)
    /\ ev.prevNodes[ev.id] # ev.cache.data[ev.id]
    /\ \E n \in appended : isCached(ev.cache, n)

\* C8: in an incremental append every node that is neither live nor cached
\* is placed at its fresh default position plus defaultDelta, the live minus
\* the fresh default position of the anchor, zero when the anchor is not live
C8_UncachedNodesUseDefaultDelta ==
    ev.op = "append" /\ (anchorLive => ev.id \in DOMAIN freshDefault) =>
        \A n \in appended :
            ~isCached(ev.cache, n) =>
                nodes[n] = PosAdd(freshDefault[n],
                                  IF anchorLive
                                  THEN PosSub(ev.prevNodes[ev.id], freshDefault[ev.id])
                                  ELSE ZeroPos)

C8_Witness ==
    /\ ev.op = "append"
    /\ anchorLive
    /\ ev.prevNodes[ev.id] # freshDefault[ev.id]
    /\ \E n \in appended : ~isCached(ev.cache, n)

\* C9: when a fetchCommits call fails, the window, hasMore, the nodes and
\* the edges are what they were before the failing step and the loading
\* flag is cleared
C9_FailureLeavesGraphUnchanged ==
    ev.op = "failed" =>
        /\ loadedCommits = ev.window
        /\ hasMore = ev.flag
        /\ nodes = ev.prevNodes
        /\ edges = ev.prevEdges
        /\ ~loading

\* C6: at no time are two load-more fetches in flight
C6_OneLoadMoreInFlight ==
    Cardinality({f \in InFlight : fetches[f].isLoadMore}) <= 1

\* targets of the edges that leave a node of S
successors(S, es) == {e.target : e \in {c \in es : c.source \in S}}

RECURSIVE closure(_, _, _)
closure(S, es, k) == IF k = 0 THEN S ELSE closure(S \cup successors(S, es), es, k - 1)

\* the nodes that a path of source -> target edges reaches from id
reachableFrom(id, es) == closure(successors({id}, es), es, Cardinality(es))

\* C3: a tick of a subtree drag leaves the dragged node where the pointer
\* put it, translates every other node that the source -> target edges
\* reach from the dragged node by the movement of the tick, once, and
\* leaves every other node where it was
C3_SubtreeDragMovesDescendantsOnce ==
    ev.op = "drag" /\ ev.flag =>
        /\ DOMAIN nodes = DOMAIN ev.prevNodes
        /\ nodes[ev.id] = lastNodePos
        /\ \A n \in (DOMAIN nodes) \ {ev.id} :
               nodes[n] = IF n \in reachableFrom(ev.id, edges)
                          THEN PosAdd(ev.prevNodes[n], ev.delta)
                          ELSE ev.prevNodes[n]

\* a subtree drag with a descendant that two paths reach
C3_Witness ==
    /\ ev.op = "drag"
    /\ ev.flag
    /\ \E n \in (DOMAIN nodes) \ {ev.id} :
           /\ n \in reachableFrom(ev.id, edges)
           /\ Cardinality({e \in edges : e.target = n
                              /\ e.source \in {ev.id} \cup reachableFrom(ev.id, edges)}) >= 2

\* C4: a tick is a subtree drag exactly when the subtree mode differs from
\* whether a modifier key (Control or Meta) is down
C4_SubtreeDragIsModeXorModifier ==
    ev.op = "drag" => (ev.flag <=> (isDragSubtreeMode # (keysDown # {})))

\* a burst of drag ends is pending exactly while the timer is
debounceAccounts ==
    /\ debounceTimer.pending <=> saveLog.burst > 0
    /\ saveLog.saves + (IF saveLog.burst > 0 THEN 1 ELSE 0) = saveLog.bursts
    /\ ev.op = "dragStop" => debounceTimer.pending /\ debounceTimer.args = nodes
    /\ ev.op = "save" => ev.prevNodes = saveLog.lastStop /\ ~debounceTimer.pending

\* C10: a drag end schedules the save of the positions of all nodes; a burst
\* of drag ends is saved once, with the positions of its last drag end; every
\* drag end is followed by a save
C10_DebouncedSave ==
    /\ []debounceAccounts
    /\ (saveLog.burst > 0) ~> (saveLog.burst = 0)

C10_Witness ==
    /\ ev.op = "save"
    /\ ev.n >= 2
    /\ saveLog.saves = 1
    /\ layoutStore.has
    /\ layoutStore.data = saveLog.lastStop

sameUpToTrailingSeparators(p, q) ==
    \E n \in 0..Min(Len(p), Len(q)) :
        /\ SubSeq(p, 1, n) = SubSeq(q, 1, n)
        /\ \A i \in (n + 1)..Len(p) : p[i] \in Separators
        /\ \A i \in (n + 1)..Len(q) : q[i] \in Separators

\* C20: paths that differ only by trailing separators read the same entry,
\* so a saveLayout or clearLayout on one is read by getLayout on the other;
\* a call on a path leaves the entries of the paths that differ from it
\* before the trailing separators as they were
C20_PathsShareEntryIffSameUpToSeparators ==
    /\ [](\A p, q \in ServicePaths :
            sameUpToTrailingSeparators(p, q) => getLayout(store, p) = getLayout(store, q))
    /\ [](\A q \in ServicePaths :
            sameUpToTrailingSeparators(ev.window, q) =>
                /\ ev.op = "saveLayout" =>
                       \A id \in DOMAIN ev.prevNodes :
                           /\ id \in DOMAIN getLayout(store, q).data
                           /\ getLayout(store, q).data[id] = ev.prevNodes[id]
                /\ ev.op = "clearLayout" => getLayout(store, q) = NoLayout)
    /\ [][\A q \in ServicePaths :
            ~sameUpToTrailingSeparators(ev'.window, q) =>
                getLayout(store', q) = getLayout(store, q)]_vars

\* a layout saved under one spelling of the path is read under another,
\* while another repository has a layout of its own
C20_Witness ==
    /\ ev.op = "saveLayout"
    /\ ev.window # repoPath
    /\ sameUpToTrailingSeparators(ev.window, repoPath)
    /\ getLayout(store, repoPath).has
    /\ getLayout(store, otherRepoPath).has
    /\ getLayout(store, otherRepoPath) # getLayout(store, repoPath)

\* C15: of the edges of a layout, the edge from parents[0] of a commit is
\* solid and the edge from every other parent is dashed, also when
\* parents[0] is not in the list; no parent has two edges to one commit
C15_FirstParentSolidOthersDashed ==
    /\ \A e \in layouted.edges : e.dashed <=> e.source # commitParents(e.target)[1]
    /\ \A e, o \in layouted.edges : e.source = o.source /\ e.target = o.target => e = o

\* a merge commit laid out with its second parent and without its first
C15_Witness ==
    /\ ev.op = "layout"
    /\ \E e \in layouted.edges :
           /\ e.dashed
           /\ ~some(layouted.commits, commitParents(e.target)[1])
    /\ \E e \in layouted.edges : ~e.dashed

\* the (parent, commit) pairs of a list: the commit is in the list, the
\* parent is one of its parents and is in the list
loadedPairs(commits) ==
    {pr \in Range(commits) \X Range(commits) : pr[1] \in Range(commitParents(pr[2]))}

\* C16: the edges of a layout are the pairs of a loaded commit and a loaded
\* parent of it, a parent that is not loaded has no edge, and the same
\* commits in another order give the same edges
C16_EdgesAreTheLoadedPairs ==
    /\ {<<e.source, e.target>> : e \in layouted.edges} = loadedPairs(layouted.commits)
    /\ layouted.otherEdges = layouted.edges

\* a layout of commits in two orders, one of them with a parent that is
\* not loaded
C16_Witness ==
    /\ ev.op = "layout"
    /\ layouted.other # layouted.commits
    /\ layouted.edges # {}
    /\ \E i \in DOMAIN layouted.commits :
           \E p \in Range(commitParents(layouted.commits[i])) : ~some(layouted.commits, p)

\* the virtual node or the diff arrow is rendered
virtualRendered ==
    DiffArrowNodeId \in DOMAIN nodes \/ \E e \in edges : isDiffArrow(e)

\* the last step was a click on a real commit while a source was pending
targetSelected ==
    /\ ev.op = "nodeClick"
    /\ ev.diff.active /\ ev.diff.sourceCommitId # NoId
    /\ ev.id # WorkingCopy

\* C12: selecting a real commit as target removes the virtual edge and
\* node and opens the dialog with (source, target), and from the selection
\* on no virtual edge or node exists until diff mode is started anew
C12_SelectionEndsThePointer ==
    /\ targetSelected =>
           /\ ~virtualRendered
           /\ showDiffDialog
           /\ diffMode.sourceCommitId = ev.diff.sourceCommitId
           /\ diffMode.targetCommitId = ev.id
    /\ diffMode.targetCommitId # NoId => ~virtualRendered

\* the step of the selection itself does what is stated
C12_SelectionStep ==
    targetSelected =>
        /\ ~virtualRendered
        /\ showDiffDialog
        /\ diffMode.sourceCommitId = ev.diff.sourceCommitId
        /\ diffMode.targetCommitId = ev.id

\* a selection made while the arrow was rendered
C12_SelectionReached ==
    /\ targetSelected
    /\ DiffArrowNodeId \in DOMAIN ev.prevNodes

\* the dialog is open with a pair: the pair is with the diff collaborator
pairHandedOver == showDiffDialog /\ diffMode.targetCommitId # NoId

\* C14: the pair handed to the diff dialog never holds "working-copy", as
\* source or as target, and a click on the working-copy node while a
\* source is pending hands over no pair
C14_WorkingCopyIsNotDiffable ==
    /\ pairHandedOver =>
           WorkingCopy \notin {diffMode.sourceCommitId, diffMode.targetCommitId}
    /\ (ev.op = "nodeClick" /\ ev.id = WorkingCopy) => ~pairHandedOver

\* the working-copy node is never the target, and a click on it hands
\* over nothing
C14_WorkingCopyIsNoTarget ==
    /\ diffMode.targetCommitId # WorkingCopy
    /\ (ev.op = "nodeClick" /\ ev.id = WorkingCopy) => ~pairHandedOver

\* a click on the working-copy node while a source was pending
C14_WorkingCopyClicked ==
    /\ ev.op = "nodeClick" /\ ev.id = WorkingCopy
    /\ ev.diff.active /\ ev.diff.sourceCommitId # NoId

\* C19: the virtual node of the diff pointer is in no map passed to
\* saveLayout (pending in the debounce or saved) and in no stored layout
C19_DiffPointerIsNeverPersisted ==
    /\ debounceTimer.pending => DiffArrowNodeId \notin DOMAIN debounceTimer.args
    /\ ev.op = "save" => DiffArrowNodeId \notin DOMAIN ev.prevNodes
    /\ DiffArrowNodeId \notin DOMAIN layoutStore.data
    /\ DiffArrowNodeId \notin DOMAIN getLayout(store, repoPath).data

\* the endpoints of the rendered edges, the diff arrow left out
edgeEndpoints == UNION {{e.source, e.target} : e \in withoutDiffArrow(edges)}

\* C17: in every state of the tab every rendered edge other than the diff
\* arrow has its source and its target in the rendered node set
C17_EdgesJoinRenderedNodes == edgeEndpoints \subseteq DOMAIN nodes

\* C18: the tabs are independent.  A start or cancel of diff mode in the
\* other tab leaves the diff pointer of this tab as it was; this tab is
\* reloaded only by its own actions; and the refresh after an operation
\* in this tab reloads this tab
C18_TabsAreIndependent ==
    /\ (ev.op \in {"startDiffMode", "canvasClick"} /\ ev.window = otherRepoPath) =>
           diffMode = ev.diff
    /\ ev.op = "request" => ev.window = repoPath
    /\ ev.op = "operation" => ev.window # repoPath

\* this tab is never reloaded by an operation in the other tab
C18_NoReloadByTheOtherTab == ev.op = "request" => ev.window = repoPath

\* the last step was a cancel in this tab: the Escape key, or a click on
\* the empty canvas with no dialog open
cancelled ==
    \/ ev.op = "escape"
    \/ ev.op = "canvasClick" /\ ev.window = repoPath /\ ~ev.flag

\* C13: after a cancel there is no virtual edge or node and diffMode is
\* inactive with no source and no target, the real nodes and edges are the
\* ones from before, and a cancel in that state changes nothing
C13_CancelClearsThePointer ==
    cancelled =>
        /\ ~virtualRendered
        /\ diffMode = NoDiff
        /\ nodes = withoutVirtualNode(ev.prevNodes)
        /\ edges = withoutDiffArrow(ev.prevEdges)

\* a cancel with the arrow rendered, and a cancel with nothing pending
C13_CancelReached ==
    /\ cancelled
    /\ \/ DiffArrowNodeId \in DOMAIN ev.prevNodes
       \/ ev.diff = NoDiff

\* the entry of this repository is the null that clearLayout has stored:
\* the cache was cleared and nothing was saved since
cleared ==
    /\ getStoreKey(repoPath) \in DOMAIN store.entries
    /\ ~store.entries[getStoreKey(repoPath)].has

resolvedParents(n) == SelectSeq(commitParents(n), LAMBDA p : p \in DOMAIN nodes)

\* C22: in a full reload with a cache, a node that is not cached and has a
\* parent resolved in the pass keeps to the first such parent the offset it
\* has to it in the default layout
C22_UncachedNodesAlignToFirstResolvedParent ==
    (ev.op = "reload" /\ ev.cache.has) =>
        \A n \in DOMAIN nodes :
            (~isCached(ev.cache, n) /\ resolvedParents(n) # <<>>) =>
                LET P == resolvedParents(n)[1]
                IN  PosSub(nodes[n], nodes[P]) = PosSub(freshDefault[n], freshDefault[P])

\* a reload in which a merge commit that is not cached has a first parent
\* that is cached but not loaded and a second parent moved by the cache,
\* and a child aligned to the merge commit in turn
C22_Witness ==
    /\ ev.op = "reload" /\ ev.cache.has
    /\ \E n \in DOMAIN nodes :
           /\ ~isCached(ev.cache, n)
           /\ Len(commitParents(n)) > 1
           /\ commitParents(n)[1] \notin DOMAIN nodes
           /\ isCached(ev.cache, commitParents(n)[1])
           /\ resolvedParents(n) # <<>>
           /\ nodes[resolvedParents(n)[1]] # freshDefault[resolvedParents(n)[1]]
           /\ \E c \in DOMAIN nodes :
                  ~isCached(ev.cache, c) /\ resolvedParents(c) = <<n>>

\* C23: in a full reload a node that was not rendered before gets its
\* cached position when the cache has one, and its fresh default position
\* when it is not cached and none of its parents is resolved in the pass
C23_CachedOrDefaultPosition ==
    ev.op = "reload" =>
        \A n \in (DOMAIN nodes) \ (DOMAIN ev.prevNodes) :
            /\ isCached(ev.cache, n) => nodes[n] = ev.cache.data[n]
            /\ (~isCached(ev.cache, n) /\ resolvedParents(n) = <<>>) =>
                   nodes[n] = freshDefault[n]

\* a first load with a cache in which a node is not cached and its only
\* parent is cached but not loaded
C23_Witness ==
    /\ ev.op = "reload" /\ ev.cache.has
    /\ ev.prevNodes = EmptyMap
    /\ \E n \in DOMAIN nodes :
           /\ ~isCached(ev.cache, n)
           /\ commitParents(n) # <<>>
           /\ \A p \in Range(commitParents(n)) : isCached(ev.cache, p) /\ p \notin DOMAIN nodes

\* C24: when the edge set of a fetch is applied, the rendered nodes are the
\* nodes of the layout of that same fetch
C24_EdgesAppliedToNodesOfTheSameFetch ==
    ev.op = "edges" =>
        /\ DOMAIN withoutVirtualNode(nodes) = ev.ids
        /\ edgeEndpoints \subseteq ev.ids

\* C25: the anchor of an incremental append is the oldest commit of the
\* window as it is when the page of the append is added to it
C25_AnchorIsOldestOfExtendedWindow ==
    (ev.op = "resolve" /\ ev.flag /\ ev.id # NoId) =>
        /\ ev.window # <<>>
        /\ ev.window[Len(ev.window)] = ev.id
        /\ loadedCommits = ev.window \o SubSeq(loadedCommits, Len(ev.window) + 1, Len(loadedCommits))

\* C26: once all calls have completed, the window, the nodes and the edges
\* are those that one request alone produces: the nodes are the commits of
\* the window and the edges are the edges of the layout of the window
C26_OneRequestAloneProducesTheGraph ==
    Idle =>
        /\ DOMAIN withoutVirtualNode(nodes) = Range(loadedCommits)
        /\ withoutDiffArrow(edges) = layoutEdges(loadedCommits)

\* C27: the loading flag is true exactly while a fetchCommits call of the
\* tab is in flight
C27_LoadingIffFetchInFlight == loading <=> InFlight # {}

\* with no call in flight the flag is false
C27_NotLoadingWhenQuiet == InFlight = {} => ~loading

\* C28: the window holds every commit id at most once, and with no call in
\* flight the rendered commit nodes are the commits of the window
C28_WindowHasNoDuplicatesAndIsRendered ==
    /\ \A i, j \in DOMAIN loadedCommits : loadedCommits[i] = loadedCommits[j] => i = j
    /\ InFlight = {} => DOMAIN withoutVirtualNode(nodes) = Range(loadedCommits)

\* the repository of path p is listed in the index, in some spelling
listed(p) == \E i \in DOMAIN store.index : normalized(store.index[i]) = normalized(p)

\* C29: with no call of the service in progress a repository is listed in
\* the index iff a layout is stored under its key; and a saveLayout stores
\* the entry that is there when it writes, merged with its positions, so a
\* clearLayout that ran since the save read the entry is not undone
C29_IndexAndEntriesAgreeAndCallsSerialize ==
    /\ serviceCalls = NoServiceCalls =>
           \A p \in ServicePaths : listed(p) <=> getLayout(store, p).has
    /\ ev.op = "saveSet" =>
           getLayout(store, ev.window) = saveLayout(ev.cache, ev.prevNodes)

\* the edges with id "diff-arrow"
diffArrows == {e \in edges : isDiffArrow(e)}

\* C30: there is at most one diff-arrow edge and one virtual node, the edge
\* is present iff the node is, both exist only while diff mode is active,
\* and the source of the edge is a rendered node; fetches included
C30_ArrowAndVirtualNodeGoTogether ==
    /\ Cardinality(diffArrows) <= 1
    /\ (diffArrows # {}) <=> (DiffArrowNodeId \in DOMAIN nodes)
    /\ virtualRendered => diffMode.active
    /\ \A e \in diffArrows : e.source \in DOMAIN withoutVirtualNode(nodes)

=============================================================================
